---- MODULE Spec2Model ----
(***************************************************************************)
(* Model of the number-extraction app:                                     *)
(*   - utils/processImage.ts          (crop -> OCR -> extractNumbers)      *)
(*   - components/NumberExtractorComponent.tsx (review workflow)           *)
(*   - index.tsx                      (App: image selection, callbacks)    *)
(*                                                                         *)
(* Strings whose characters matter (OCR text, numeric tokens, drafts) are  *)
(* sequences of one-character strings; the empty string is << >>.          *)
(* A nullable pair ([string, string] | null) is << >> when null and        *)
(* <<first, second>> otherwise.                                            *)
(***************************************************************************)
EXTENDS Integers, Sequences, FiniteSets, Bags, TLC

VARIABLES
    \* index.tsx, App
    selectedImageUri,     \* string | null
    finalNumbers,         \* [string, string] | null
    pendingPicks,         \* invocations of handlePickImage suspended at an await
    \* NumberExtractorComponent (the mounted instance, if any)
    allExtractedNumbers,
    displayedNumbers,
    loading,
    isModifyingNumbers,
    numberInput1,
    numberInput2,
    showStartButton,
    \* calls of handleProcessImage / processImageAndExtractNumbers
    runs,                 \* those in flight (a bag of runs)
    settled,              \* the one that settled in the last step, if any
    \* observation of the callbacks and alerts
    startCalls,           \* onExtractionComplete calls since the image was supplied
    lastEvent,            \* the last handler that ran, the view it ran in, its alert
    \* extractNumbers applied on its own
    text,                 \* its argument
    extracted             \* whether it was called, and what it returned

vars == <<selectedImageUri, finalNumbers, pendingPicks,
          allExtractedNumbers, displayedNumbers, loading, isModifyingNumbers,
          numberInput1, numberInput2, showStartButton, runs, settled, startCalls,
          lastEvent, text, extracted>>

appVars == <<selectedImageUri, finalNumbers, pendingPicks>>
reviewVars == <<allExtractedNumbers, displayedNumbers, loading,
                isModifyingNumbers, numberInput1, numberInput2, showStartButton>>
extractVars == <<text, extracted>>

----------------------------------------------------------------------------
\* Bounds of the model

MaxAsync == 2       \* asynchronous operations outstanding at once: invocations
                    \* of handlePickImage suspended, calls of
                    \* handleProcessImage in flight
MaxStarts == 2      \* presses of Start counted per image
MaxTextLen == 4     \* length of the texts given to extractNumbers on its own

Null == "null"
NoPair == << >>

Images == {"A", "B"}

\* Characters of the texts given to extractNumbers on its own.
Alphabet == {"1", "2", ".", "a"}

\* What the OCR capability returns in the review workflow: no token, one
\* token, three tokens (the first one a decimal).
OcrTexts == { <<"a">>,
              <<"1">>,
              <<"1", ".", "2", "a", "1", "a", "2">> }

\* What the user types into a draft field (onChangeText): a text that is
\* empty after trim, and a padded text that is not a number.  The code looks
\* at a draft only through trim(), so digits typed behave as the "a" does.
DraftInputs == { <<" ">>, <<" ", "a", " ">> }

\* Results of the crop capability (result.uri).
CropOutputs == {"cropped"}

\* Messages of the errors the crop and OCR capabilities raise.
OrigMessages == {"engine error", "timeout"}

----------------------------------------------------------------------------
\* Strings

IsDigit(c) == c \in {"0", "1", "2", "3", "4", "5", "6", "7", "8", "9"}

IsSpace(c) == c = " "

RECURSIVE TrimStart(_)
TrimStart(s) ==
    IF s # << >> /\ IsSpace(Head(s)) THEN TrimStart(Tail(s)) ELSE s

RECURSIVE TrimEnd(_)
TrimEnd(s) ==
    IF s # << >> /\ IsSpace(s[Len(s)])
    THEN TrimEnd(SubSeq(s, 1, Len(s) - 1))
    ELSE s

\* As Trim, removing the leading white space only.
Trim_LeadingOnly(s) == TrimStart(s)

\* String.prototype.trim
Trim(s) == TrimEnd(TrimStart(s))

----------------------------------------------------------------------------
\* utils/processImage.ts

\* \d+ at position i: the number of digits it consumes (greedy).
RECURSIVE DigitRun(_, _)
DigitRun(t, i) ==
    IF i <= Len(t) /\ IsDigit(t[i]) THEN 1 + DigitRun(t, i + 1) ELSE 0

\* As MatchAt, with the optional fraction group left out of the pattern.
MatchAt_NoFraction(t, i) == DigitRun(t, i)

\* /\d+(?:\.\d+)?/ anchored at position i: the length of the match, 0 when
\* there is none.  \d+ takes every digit; the optional group is taken when a
\* '.' and at least one digit follow, and is skipped otherwise.
MatchAt(t, i) ==
    LET n == DigitRun(t, i)
    IN  IF n = 0 THEN 0
        ELSE IF /\ i + n <= Len(t)
                /\ t[i + n] = "."
                /\ DigitRun(t, i + n + 1) > 0
             THEN n + 1 + DigitRun(t, i + n + 1)
             ELSE n

\* The g flag: the search resumes where the previous match ended.
RECURSIVE MatchAll(_, _)
MatchAll(t, i) ==
    IF i > Len(t) THEN << >>
    ELSE LET m == MatchAt(t, i)
         IN  IF m = 0 THEN MatchAll(t, i + 1)
             ELSE <<SubSeq(t, i, i + m - 1)>> \o MatchAll(t, i + m)

\* text.match(...) ?? []
extractNumbers(t) == MatchAll(t, 1)

\* What a capability throws: an Error with a message (a string, kept as the
\* sequence of the pieces it is concatenated from).
Thrown == {[isError |-> TRUE, message |-> <<m>>] : m \in OrigMessages}

\* As cropImageError, rethrowing the cause instead of a new Error.
cropImageError_Rethrow(err) == err

\* cropImage, catch: the cause is logged, a new Error is thrown.
cropImageError(err) == [isError |-> TRUE, message |-> <<"Image cropping failed.">>]

\* recognizeText, catch: the cause is logged, a new Error is thrown.
recognizeTextError(err) == [isError |-> TRUE, message |-> <<"Text recognition failed.">>]

\* processImageAndExtractNumbers, catch.
pipelineError(err) ==
    LET message == IF err.isError THEN err.message ELSE <<"Unknown error">>
    IN  [isError |-> TRUE, message |-> <<"Processing pipeline failed: ">> \o message]

NoError == [isError |-> FALSE, message |-> << >>]

\* A call of handleProcessImage and the pipeline run it awaits.
\*   status: "current"  the component shows the image the run was started for
\*           "stale"    the imageUri prop changed since the run started
\*           "orphan"   the component that started the run was unmounted
\*   pc:     the capability the run awaits ("crop", "ocr"), or "done"
\*   calls:  the stages invoked so far, each with its argument
newRun(imageUri) ==
    [img |-> imageUri, status |-> "current", pc |-> "crop",
     calls |-> <<[stage |-> "crop", arg |-> imageUri]>>,
     croppedUri |-> Null, ocrText |-> << >>, numbers |-> << >>,
     outcome |-> "pending", stage |-> "none", cause |-> NoError,
     error |-> NoError, resets |-> 0]

\* No run settled in the last step.
NoRun == [newRun(Null) EXCEPT !.pc = "none", !.calls = << >>]

\* The runs in flight.
InFlight == BagToSet(runs)

\* The bag rs with one copy of run replaced by next / removed / added.
Without(rs, run) == rs (-) SetToBag({run})
With(rs, run) == rs (+) SetToBag({run})

\* const croppedUri = await cropImage(imageUri);  recognizeText(croppedUri)
cropResolved(run, uri) ==
    [run EXCEPT !.pc = "ocr", !.croppedUri = uri,
                !.calls = @ \o <<[stage |-> "ocr", arg |-> uri]>>]

\* As cropRejected, with the failure swallowed: the pipeline goes on to the
\* OCR capability with the original image.
cropRejected_Continues(run, err) ==
    [run EXCEPT !.pc = "ocr", !.outcome = "fail", !.stage = "crop", !.cause = err,
                !.calls = @ \o <<[stage |-> "ocr", arg |-> run.img]>>]

\* cropImage throws: the pipeline's catch rethrows, nothing else runs.
cropRejected(run, err) ==
    [run EXCEPT !.pc = "done", !.outcome = "fail", !.stage = "crop",
                !.cause = err, !.error = pipelineError(cropImageError(err))]

\* extractNumbers over the texts the OCR capability returns here, computed
\* once.
ocrNumbers == [t \in OcrTexts |-> extractNumbers(t)]

\* const ocrText = await recognizeText(croppedUri);  return extractNumbers(ocrText)
ocrResolved(run, t) ==
    [run EXCEPT !.pc = "done", !.outcome = "ok", !.ocrText = t,
                !.calls = @ \o <<[stage |-> "extract", arg |-> t]>>,
                !.numbers = ocrNumbers[t]]

\* recognizeText throws: the pipeline's catch rethrows.
ocrRejected(run, err) ==
    [run EXCEPT !.pc = "done", !.outcome = "fail", !.stage = "ocr",
                !.cause = err, !.error = pipelineError(recognizeTextError(err))]

----------------------------------------------------------------------------
\* components/NumberExtractorComponent.tsx

\* renderContent: which branch is rendered, hence which buttons exist.
renderContent ==
    IF selectedImageUri = Null THEN "noImage"
    ELSE IF loading THEN "loader"
    ELSE IF /\ displayedNumbers = NoPair
            /\ Len(allExtractedNumbers) < 2
            /\ Len(allExtractedNumbers) > 0 THEN "insufficient"
    ELSE IF /\ displayedNumbers = NoPair
            /\ Len(allExtractedNumbers) < 2
            /\ ~loading THEN "process"
    ELSE IF displayedNumbers # NoPair /\ ~isModifyingNumbers /\ ~showStartButton
         THEN "decision"
    ELSE IF displayedNumbers # NoPair /\ isModifyingNumbers THEN "modify"
    ELSE IF displayedNumbers # NoPair /\ showStartButton THEN "start"
    ELSE "nothing"

Event(name, alert) == [name |-> name, view |-> renderContent, alert |-> alert]

\* The useState initial values; also the state of a component that is not
\* mounted (App renders it only while selectedImageUri is set).
useStateInitial ==
    /\ allExtractedNumbers' = << >>
    /\ displayedNumbers' = NoPair
    /\ loading' = FALSE
    /\ isModifyingNumbers' = FALSE
    /\ numberInput1' = << >>
    /\ numberInput2' = << >>
    /\ showStartButton' = FALSE

\* As useEffectImageUri, also starting the processing of the new image.
useEffectImageUri_StartsProcessing ==
    /\ allExtractedNumbers' = << >>
    /\ displayedNumbers' = NoPair
    /\ loading' = TRUE
    /\ isModifyingNumbers' = FALSE
    /\ numberInput1' = << >>
    /\ numberInput2' = << >>
    /\ showStartButton' = FALSE

\* As useEffectImageUri, leaving the two drafts as they are.
useEffectImageUri_KeepsDrafts ==
    /\ allExtractedNumbers' = << >>
    /\ displayedNumbers' = NoPair
    /\ loading' = FALSE
    /\ isModifyingNumbers' = FALSE
    /\ showStartButton' = FALSE
    /\ UNCHANGED <<numberInput1, numberInput2>>

\* useEffect(..., [imageUri]): runs on mount and whenever the prop changes;
\* both of its branches make the same seven assignments.
useEffectImageUri ==
    /\ allExtractedNumbers' = << >>
    /\ displayedNumbers' = NoPair
    /\ loading' = FALSE
    /\ isModifyingNumbers' = FALSE
    /\ numberInput1' = << >>
    /\ numberInput2' = << >>
    /\ showStartButton' = FALSE

\* The state setters of a run's closure belong to the component instance that
\* started it: after the unmount of that instance they change nothing.
setState(run, update) ==
    IF run.status = "orphan" THEN UNCHANGED reviewVars ELSE update

\* handleProcessImage, up to the await.
handleProcessImage ==
    /\ renderContent = "process"
    /\ selectedImageUri # Null
    /\ pendingPicks + BagCardinality(runs) < MaxAsync
    /\ loading' = TRUE
    /\ allExtractedNumbers' = << >>
    /\ displayedNumbers' = NoPair
    /\ isModifyingNumbers' = FALSE
    /\ showStartButton' = FALSE
    /\ runs' = With(runs, newRun(selectedImageUri))
    /\ lastEvent' = Event("handleProcessImage", "none")
    /\ UNCHANGED <<numberInput1, numberInput2, startCalls>>
    /\ settled' = NoRun
    /\ UNCHANGED appVars
    /\ UNCHANGED extractVars

\* handleProcessImage after the await, try branch, and finally.
processResolved(numbers) ==
    /\ allExtractedNumbers' = numbers
    /\ displayedNumbers' = IF Len(numbers) >= 2
                           THEN <<numbers[1], numbers[2]>>
                           ELSE NoPair
    /\ loading' = FALSE
    /\ UNCHANGED <<isModifyingNumbers, numberInput1, numberInput2, showStartButton>>

\* As processRejected, without the finally block.
processRejected_NoFinally ==
    /\ displayedNumbers' = NoPair
    /\ UNCHANGED <<allExtractedNumbers, loading, isModifyingNumbers, numberInput1,
                   numberInput2, showStartButton>>

\* handleProcessImage after the await, catch branch, and finally.
processRejected ==
    /\ displayedNumbers' = NoPair
    /\ loading' = FALSE
    /\ UNCHANGED <<allExtractedNumbers, isModifyingNumbers, numberInput1,
                   numberInput2, showStartButton>>

\* As resetCallsResolved, without the call in the not-enough-numbers branch.
resetCallsResolved_Silent(numbers) == 0

\* The calls of onProcessReset a settled run makes (App passes the callback).
resetCallsResolved(numbers) == IF Len(numbers) >= 2 THEN 0 ELSE 1

resetCallsRejected == 1

\* The crop capability resolves; the pipeline goes on to the OCR capability.
cropResolve(r, uri) ==
    /\ r.pc = "crop"
    /\ runs' = With(Without(runs, r), cropResolved(r, uri))
    /\ lastEvent' = Event("cropImage", "none")
    /\ UNCHANGED <<startCalls>>
    /\ settled' = NoRun
    /\ UNCHANGED reviewVars
    /\ UNCHANGED appVars
    /\ UNCHANGED extractVars

\* The crop capability rejects; the pipeline and then handleProcessImage
\* run their catch blocks.
cropReject(r, err) ==
    /\ r.pc = "crop"
    /\ runs' = Without(runs, r)
    /\ settled' = [cropRejected(r, err) EXCEPT !.resets = @ + resetCallsRejected]
    /\ setState(r, processRejected)
    /\ lastEvent' = Event("processRejected", "Processing Error")
    /\ UNCHANGED <<startCalls>>
    /\ UNCHANGED appVars
    /\ UNCHANGED extractVars

\* The OCR capability resolves; extractNumbers runs and handleProcessImage
\* continues after its await.
recognizeResolve(r, t) ==
    /\ r.pc = "ocr"
    /\ runs' = Without(runs, r)
    /\ LET done == ocrResolved(r, t)
       IN  /\ settled' = [done EXCEPT !.resets = @ + resetCallsResolved(done.numbers)]
           /\ setState(r, processResolved(done.numbers))
           /\ lastEvent' = Event("processResolved",
                                 IF Len(done.numbers) >= 2 THEN "none"
                                 ELSE "Extraction Failed")
    /\ UNCHANGED <<startCalls>>
    /\ UNCHANGED appVars
    /\ UNCHANGED extractVars

\* The OCR capability rejects.
recognizeReject(r, err) ==
    /\ r.pc = "ocr"
    /\ runs' = Without(runs, r)
    /\ settled' = [ocrRejected(r, err) EXCEPT !.resets = @ + resetCallsRejected]
    /\ setState(r, processRejected)
    /\ lastEvent' = Event("processRejected", "Processing Error")
    /\ UNCHANGED <<startCalls>>
    /\ UNCHANGED appVars
    /\ UNCHANGED extractVars

\* As handleModifyNumbers, opening the editor on the drafts left from before
\* instead of seeding them from the pair.
handleModifyNumbers_KeepsDrafts ==
    /\ renderContent = "decision"
    /\ IF displayedNumbers # NoPair
       THEN /\ isModifyingNumbers' = TRUE
            /\ showStartButton' = FALSE
            /\ UNCHANGED <<allExtractedNumbers, displayedNumbers, loading,
                           numberInput1, numberInput2>>
       ELSE UNCHANGED reviewVars
    /\ lastEvent' = Event("handleModifyNumbers", "none")
    /\ UNCHANGED <<runs, startCalls>>
    /\ settled' = NoRun
    /\ UNCHANGED appVars
    /\ UNCHANGED extractVars

handleModifyNumbers ==
    /\ renderContent = "decision"
    /\ IF displayedNumbers # NoPair
       THEN /\ isModifyingNumbers' = TRUE
            /\ numberInput1' = displayedNumbers[1]
            /\ numberInput2' = displayedNumbers[2]
            /\ showStartButton' = FALSE
            /\ UNCHANGED <<allExtractedNumbers, displayedNumbers, loading>>
       ELSE UNCHANGED reviewVars
    /\ lastEvent' = Event("handleModifyNumbers", "none")
    /\ UNCHANGED <<runs, startCalls>>
    /\ settled' = NoRun
    /\ UNCHANGED appVars
    /\ UNCHANGED extractVars

handleAcceptNumbers ==
    /\ renderContent = "decision"
    /\ IF displayedNumbers # NoPair
       THEN /\ isModifyingNumbers' = FALSE
            /\ showStartButton' = TRUE
            /\ UNCHANGED <<allExtractedNumbers, displayedNumbers, loading,
                           numberInput1, numberInput2>>
       ELSE UNCHANGED reviewVars
    /\ lastEvent' = Event("handleAcceptNumbers", "none")
    /\ UNCHANGED <<runs, startCalls>>
    /\ settled' = NoRun
    /\ UNCHANGED appVars
    /\ UNCHANGED extractVars

\* onChangeText of the first TextInput.
setNumberInput1(s) ==
    /\ renderContent = "modify"
    /\ numberInput1' = s
    /\ lastEvent' = Event("setNumberInput1", "none")
    /\ UNCHANGED <<allExtractedNumbers, displayedNumbers, loading,
                   isModifyingNumbers, numberInput2, showStartButton>>
    /\ UNCHANGED <<runs, startCalls>>
    /\ settled' = NoRun
    /\ UNCHANGED appVars
    /\ UNCHANGED extractVars

\* onChangeText of the second TextInput.
setNumberInput2(s) ==
    /\ renderContent = "modify"
    /\ numberInput2' = s
    /\ lastEvent' = Event("setNumberInput2", "none")
    /\ UNCHANGED <<allExtractedNumbers, displayedNumbers, loading,
                   isModifyingNumbers, numberInput1, showStartButton>>
    /\ UNCHANGED <<runs, startCalls>>
    /\ settled' = NoRun
    /\ UNCHANGED appVars
    /\ UNCHANGED extractVars

\* As saveAccepted, testing the drafts as typed, without trimming them.
saveAccepted_NoTrim(input1, input2) == input1 # << >> /\ input2 # << >>

\* The validation of handleSaveChanges: both drafts non-empty after trim.
saveAccepted(input1, input2) == Trim(input1) # << >> /\ Trim(input2) # << >>

\* As handleSaveChanges, storing the drafts as typed instead of trimmed.
handleSaveChanges_Untrimmed ==
    /\ renderContent = "modify"
    /\ IF saveAccepted(numberInput1, numberInput2)
       THEN /\ displayedNumbers' = <<numberInput1, numberInput2>>
            /\ isModifyingNumbers' = FALSE
            /\ showStartButton' = TRUE
            /\ UNCHANGED <<allExtractedNumbers, loading, numberInput1, numberInput2>>
            /\ lastEvent' = Event("handleSaveChanges", "none")
       ELSE /\ UNCHANGED reviewVars
            /\ lastEvent' = Event("handleSaveChanges", "Invalid Input")
    /\ UNCHANGED <<runs, startCalls>>
    /\ settled' = NoRun
    /\ UNCHANGED appVars
    /\ UNCHANGED extractVars

handleSaveChanges ==
    /\ renderContent = "modify"
    /\ IF saveAccepted(numberInput1, numberInput2)
       THEN /\ displayedNumbers' = <<Trim(numberInput1), Trim(numberInput2)>>
            /\ isModifyingNumbers' = FALSE
            /\ showStartButton' = TRUE
            /\ UNCHANGED <<allExtractedNumbers, loading, numberInput1, numberInput2>>
            /\ lastEvent' = Event("handleSaveChanges", "none")
       ELSE /\ UNCHANGED reviewVars
            /\ lastEvent' = Event("handleSaveChanges", "Invalid Input")
    /\ UNCHANGED <<runs, startCalls>>
    /\ settled' = NoRun
    /\ UNCHANGED appVars
    /\ UNCHANGED extractVars

\* As handleCancelModification, storing the two drafts as the pair.
handleCancelModification_StoresDrafts ==
    /\ renderContent = "modify"
    /\ isModifyingNumbers' = FALSE
    /\ displayedNumbers' = <<numberInput1, numberInput2>>
    /\ lastEvent' = Event("handleCancelModification", "none")
    /\ UNCHANGED <<allExtractedNumbers, loading,
                   numberInput1, numberInput2, showStartButton>>
    /\ UNCHANGED <<runs, startCalls>>
    /\ settled' = NoRun
    /\ UNCHANGED appVars
    /\ UNCHANGED extractVars

handleCancelModification ==
    /\ renderContent = "modify"
    /\ isModifyingNumbers' = FALSE
    /\ lastEvent' = Event("handleCancelModification", "none")
    /\ UNCHANGED <<allExtractedNumbers, displayedNumbers, loading,
                   numberInput1, numberInput2, showStartButton>>
    /\ UNCHANGED <<runs, startCalls>>
    /\ settled' = NoRun
    /\ UNCHANGED appVars
    /\ UNCHANGED extractVars

\* handleStart, and App's handleExtractionComplete which it calls.
handleStart ==
    /\ renderContent = "start"
    /\ startCalls < MaxStarts
    /\ IF displayedNumbers # NoPair
       THEN /\ finalNumbers' = displayedNumbers
            /\ startCalls' = startCalls + 1
            /\ lastEvent' = Event("handleStart", "Ready to Start")
       ELSE /\ UNCHANGED <<finalNumbers, startCalls>>
            /\ lastEvent' = Event("handleStart", "none")
    /\ UNCHANGED <<selectedImageUri, pendingPicks, runs>>
    /\ settled' = NoRun
    /\ UNCHANGED reviewVars
    /\ UNCHANGED extractVars

----------------------------------------------------------------------------
\* index.tsx

\* The runs of a component whose imageUri prop changes, or which unmounts.
superseded(run, status) ==
    IF run.status = "orphan" THEN run ELSE [run EXCEPT !.status = status]

supersede(rs, status) ==
    LET after == {superseded(run, status) : run \in BagToSet(rs)}
        count(a) == LET from == {run \in BagToSet(rs) : superseded(run, status) = a}
                        sum[S \in SUBSET from] ==
                            IF S = {} THEN 0
                            ELSE LET x == CHOOSE x \in S : TRUE
                                 IN  rs[x] + sum[S \ {x}]
                    IN  sum[from]
    IN  [a \in after |-> count(a)]

\* handlePickImage up to its first await: both states are cleared, so the
\* component (rendered only while selectedImageUri is set) unmounts.  The
\* button stays enabled while an invocation is suspended, so invocations
\* overlap; the second of two overlapping ones to return an image changes
\* the imageUri prop of the mounted component without an unmount in between.
handlePickImage ==
    /\ pendingPicks + BagCardinality(runs) < MaxAsync
    /\ pendingPicks' = pendingPicks + 1
    /\ selectedImageUri' = Null
    /\ finalNumbers' = NoPair
    /\ useStateInitial
    /\ runs' = supersede(runs, "orphan")
    /\ startCalls' = 0
    /\ settled' = NoRun
    /\ lastEvent' = Event("handlePickImage", "none")
    /\ UNCHANGED extractVars

\* handlePickImage: the permission is not granted.
handlePickImageDenied ==
    /\ pendingPicks > 0
    /\ pendingPicks' = pendingPicks - 1
    /\ lastEvent' = Event("handlePickImageDenied", "Permission Denied")
    /\ UNCHANGED <<selectedImageUri, finalNumbers, runs, startCalls>>
    /\ settled' = NoRun
    /\ UNCHANGED reviewVars
    /\ UNCHANGED extractVars

\* handlePickImage: the picker is canceled.
handlePickImageCanceled ==
    /\ pendingPicks > 0
    /\ pendingPicks' = pendingPicks - 1
    /\ lastEvent' = Event("handlePickImageCanceled", "none")
    /\ UNCHANGED <<selectedImageUri, finalNumbers, runs, startCalls>>
    /\ settled' = NoRun
    /\ UNCHANGED reviewVars
    /\ UNCHANGED extractVars

\* handlePickImage: the picker returns an image; setSelectedImageUri(uri).
\* The component mounts (selectedImageUri was null) or sees its prop change;
\* the same uri again changes nothing.
handlePickImageSelected(uri) ==
    /\ pendingPicks > 0
    /\ pendingPicks' = pendingPicks - 1
    /\ selectedImageUri' = uri
    /\ IF uri # selectedImageUri
       THEN /\ useEffectImageUri
            /\ runs' = supersede(runs, "stale")
            /\ startCalls' = 0
       ELSE /\ UNCHANGED reviewVars
            /\ UNCHANGED <<runs, startCalls>>
    /\ settled' = NoRun
    /\ lastEvent' = Event("handlePickImageSelected", "none")
    /\ UNCHANGED <<finalNumbers>>
    /\ UNCHANGED extractVars

----------------------------------------------------------------------------
\* The application

Init ==
    /\ selectedImageUri = Null
    /\ finalNumbers = NoPair
    /\ pendingPicks = 0
    /\ allExtractedNumbers = << >>
    /\ displayedNumbers = NoPair
    /\ loading = FALSE
    /\ isModifyingNumbers = FALSE
    /\ numberInput1 = << >>
    /\ numberInput2 = << >>
    /\ showStartButton = FALSE
    /\ runs = EmptyBag
    /\ settled = NoRun
    /\ startCalls = 0
    /\ lastEvent = [name |-> "init", view |-> "noImage", alert |-> "none"]
    /\ text = << >>
    /\ extracted = [called |-> FALSE, result |-> << >>]

Next ==
    \/ handlePickImage
    \/ handlePickImageDenied
    \/ handlePickImageCanceled
    \/ \E uri \in Images : handlePickImageSelected(uri)
    \/ handleProcessImage
    \/ \E r \in InFlight, uri \in CropOutputs : cropResolve(r, uri)
    \/ \E r \in InFlight, err \in Thrown : cropReject(r, err)
    \/ \E r \in InFlight, t \in OcrTexts : recognizeResolve(r, t)
    \/ \E r \in InFlight, err \in Thrown : recognizeReject(r, err)
    \/ handleModifyNumbers
    \/ handleAcceptNumbers
    \/ \E s \in DraftInputs : setNumberInput1(s)
    \/ \E s \in DraftInputs : setNumberInput2(s)
    \/ handleSaveChanges
    \/ handleCancelModification
    \/ handleStart

Spec == Init /\ [][Next]_vars

\* A pending call of the crop or OCR capability is answered: the promise that
\* cropImage or recognizeText awaits resolves or rejects.
capabilityAnswers ==
    \E r \in InFlight :
        \/ \E uri \in CropOutputs : cropResolve(r, uri)
        \/ \E err \in Thrown : cropReject(r, err)
        \/ \E t \in OcrTexts : recognizeResolve(r, t)
        \/ \E err \in Thrown : recognizeReject(r, err)

\* The program under the assumption that no capability call stays pending
\* for ever; the user's presses are not forced.
FairSpec == Init /\ [][Next]_vars /\ WF_vars(capabilityAnswers)

----------------------------------------------------------------------------
\* extractNumbers on its own, over every text up to MaxTextLen

AllTexts == UNION {[1..n -> Alphabet] : n \in 0..MaxTextLen}

InitExtract ==
    /\ selectedImageUri = Null
    /\ finalNumbers = NoPair
    /\ pendingPicks = 0
    /\ allExtractedNumbers = << >>
    /\ displayedNumbers = NoPair
    /\ loading = FALSE
    /\ isModifyingNumbers = FALSE
    /\ numberInput1 = << >>
    /\ numberInput2 = << >>
    /\ showStartButton = FALSE
    /\ runs = EmptyBag
    /\ settled = NoRun
    /\ startCalls = 0
    /\ lastEvent = [name |-> "init", view |-> "noImage", alert |-> "none"]
    /\ text \in AllTexts
    /\ extracted = [called |-> FALSE, result |-> << >>]

callExtractNumbers ==
    /\ ~extracted.called
    /\ extracted' = [called |-> TRUE, result |-> extractNumbers(text)]
    /\ UNCHANGED <<text, runs, settled, startCalls, lastEvent>>
    /\ UNCHANGED reviewVars
    /\ UNCHANGED appVars

NextExtract == callExtractNumbers

SpecExtract == InitExtract /\ [][NextExtract]_vars

----------------------------------------------------------------------------
\* Properties

\* The numeric-token pattern: one or more digits, optionally followed by a
\* decimal point and one or more digits.
IsNumericToken(s) ==
    /\ Len(s) >= 1
    /\ \A i \in 1..Len(s) : IsDigit(s[i]) \/ s[i] = "."
    /\ Cardinality({i \in 1..Len(s) : s[i] = "."}) <= 1
    /\ IsDigit(s[1])
    /\ IsDigit(s[Len(s)])

\* A new image is supplied in this step: the imageUri prop of the component
\* becomes a uri it was not before.
ImageSupplied == selectedImageUri' # selectedImageUri /\ selectedImageUri' # Null

\* The views of renderContent that offer a user event of the review.
EventViews == {"process", "decision", "modify", "start"}

\* C1: onExtractionComplete is invoked at most once for one supplied image:
\* after Start has fired once, no further Start invokes it again.
C1_StartOncePerCycle == startCalls <= 1

\* C2: a run that was superseded by a new image, when it settles, changes
\* nothing of the review state and invokes no callback.
C2_SupersededRunIgnored ==
    [][(/\ settled'.pc = "done"
        /\ \/ settled'.status = "stale"
           \/ settled'.status = "orphan" /\ selectedImageUri # Null)
       => (/\ allExtractedNumbers' = allExtractedNumbers
           /\ displayedNumbers' = displayedNumbers
           /\ loading' = loading
           /\ isModifyingNumbers' = isModifyingNumbers
           /\ showStartButton' = showStartButton
           /\ settled'.resets = 0)]_vars

\* C3: every pair handed to onExtractionComplete (which App stores in
\* finalNumbers) consists of two strings matching the numeric-token pattern.
C3_EmittedPairNumeric ==
    finalNumbers # NoPair =>
        IsNumericToken(finalNumbers[1]) /\ IsNumericToken(finalNumbers[2])

\* C4: a run that fails, or succeeds with fewer than 2 tokens, invokes
\* onProcessReset exactly once; a run that yields 2 or more tokens, and a run
\* that has not settled, never invokes it.
C4_ResetNotifiedOnce ==
    /\ \A r \in InFlight : r.resets = 0
    /\ settled.pc = "done" =>
          settled.resets = IF settled.outcome = "fail" \/ Len(settled.numbers) < 2
                           THEN 1 ELSE 0

\* C4 witness: a run has just succeeded with a single token and has notified.
C4_Witness ==
    /\ settled.pc = "done"
    /\ settled.outcome = "ok"
    /\ Len(settled.numbers) = 1
    /\ settled.resets = 1

\* The review state right after the reset of useEffect.
ReviewCleared ==
    /\ displayedNumbers = NoPair
    /\ allExtractedNumbers = << >>
    /\ numberInput1 = << >>
    /\ numberInput2 = << >>
    /\ ~loading
    /\ ~isModifyingNumbers
    /\ ~showStartButton

\* C5 as stated: supplying a new image moves the review to Processing and
\* starts a pipeline run for the new image, without a user event.
C5_NewImageStartsRun ==
    [][ImageSupplied =>
          /\ loading'
          /\ \E r \in BagToSet(runs') :
                r.img = selectedImageUri' /\ r.status = "current"]_vars

\* C5 as amended: supplying a new image starts no pipeline run; it leaves the
\* review not loading with Process Image offered, and a run is started only
\* by the Process Image event, for the image then shown.
C5_NewImageAwaitsProcess ==
    [][/\ ImageSupplied =>
            /\ ~loading'
            /\ (renderContent')= "process"
            /\ \A r \in BagToSet(runs') : r.status # "current"
            /\ BagCardinality(runs') = BagCardinality(runs)
       /\ BagCardinality(runs') > BagCardinality(runs) =>
            /\ renderContent = "process"
            /\ lastEvent'.name = "handleProcessImage"
            /\ selectedImageUri' = selectedImageUri
            /\ BagIn(newRun(selectedImageUri), runs')]_vars

\* C5 witness: a new image replaced the one under review while its pair was
\* ready to start, and Process Image is offered for it.
C5_Witness ==
    /\ lastEvent.name = "handlePickImageSelected"
    /\ lastEvent.view = "start"
    /\ renderContent = "process"
    /\ runs = EmptyBag

\* C6: supplying a new image resets unconditionally: right after it the pair
\* is null, the extracted numbers and both drafts are empty, and loading,
\* isModifyingNumbers and showStartButton are false.
C6_NewImageResets == [][ImageSupplied => ReviewCleared']_vars

\* C6 witness: the image changed while the user was editing drafts, and the
\* review is cleared.
C6_Witness ==
    /\ lastEvent.name = "handlePickImageSelected"
    /\ lastEvent.view = "modify"
    /\ ReviewCleared

\* C7: after a run for the image shown succeeded with fewer than 2 tokens,
\* no Process, Modify, Accept, Save or Start event is offered.
C7_InsufficientIsTerminal ==
    (/\ settled.pc = "done"
     /\ settled.status = "current"
     /\ settled.outcome = "ok"
     /\ Len(settled.numbers) < 2)
    => renderContent \notin EventViews

\* The runs there are: those in flight and the one that has just settled.
KnownRuns == InFlight \cup (IF settled.pc = "none" THEN {} ELSE {settled})

\* The message cropImage and recognizeText give their own errors.
StageMessage(stage) ==
    IF stage = "crop" THEN "Image cropping failed." ELSE "Text recognition failed."

\* Whether the string made of the pieces of message contains piece.
Carries(message, piece) == \E i \in DOMAIN message : message[i] = piece

\* C8 as stated: the error of a failed run carries which stage failed and the
\* message of the failure the crop or OCR capability raised.
C8_FailureCarriesCause ==
    settled.outcome = "fail" =>
        /\ settled.error.isError
        /\ Carries(settled.error.message, StageMessage(settled.stage))
        /\ Carries(settled.error.message, settled.cause.message[1])

\* C8 as amended: the error of a failed run is one Error whose message is
\* "Processing pipeline failed: " followed by the fixed message of the stage
\* that failed; the message the capability raised is not part of it.
C8_FailureNamesStage ==
    settled.outcome = "fail" =>
        /\ settled.stage \in {"crop", "ocr"}
        /\ settled.error.isError
        /\ settled.error.message =
              <<"Processing pipeline failed: ", StageMessage(settled.stage)>>
        /\ ~Carries(settled.error.message, settled.cause.message[1])

\* C8 witness: a run has just failed in the crop stage on a capability error.
C8_Witness ==
    /\ settled.outcome = "fail"
    /\ settled.stage = "crop"
    /\ settled.cause.message = <<"timeout">>

StageNames(calls) == [i \in DOMAIN calls |-> calls[i].stage]

\* C9: in every run the stages are invoked in the order crop, recognize,
\* extract, each at most once; the OCR capability is invoked only after the
\* crop resolved and on its result; extractNumbers only after the OCR
\* resolved and on its text; after a crop or OCR failure nothing more is
\* invoked and the run has ended in failure.
C9_StagesInOrder ==
    \A r \in KnownRuns :
        /\ StageNames(r.calls) \in
              {<<"crop">>, <<"crop", "ocr">>, <<"crop", "ocr", "extract">>}
        /\ r.calls[1].arg = r.img
        /\ r.pc = "crop" => Len(r.calls) = 1 /\ r.croppedUri = Null
        /\ r.pc = "ocr" => Len(r.calls) = 2 /\ r.outcome = "pending"
        /\ Len(r.calls) >= 2 =>
              r.croppedUri \in CropOutputs /\ r.calls[2].arg = r.croppedUri
        /\ Len(r.calls) = 3 <=> r.outcome = "ok"
        /\ r.outcome = "ok" => r.pc = "done" /\ r.calls[3].arg = r.ocrText
        /\ r.outcome = "fail" =>
              /\ r.pc = "done"
              /\ r.stage = "crop" => Len(r.calls) = 1
              /\ r.stage = "ocr" => Len(r.calls) = 2

\* C9 witness: a run has just failed in the OCR stage, after its crop.
C9_Witness ==
    /\ settled.outcome = "fail"
    /\ settled.stage = "ocr"
    /\ StageNames(settled.calls) = <<"crop", "ocr">>

\* The elements of a set of numbers, in increasing order.
RECURSIVE Ascending(_)
Ascending(S) ==
    IF S = {} THEN << >>
    ELSE LET m == CHOOSE x \in S : \A y \in S : x <= y
         IN  <<m>> \o Ascending(S \ {m})

\* The last position of the longest numeric token of t that starts at i
\* (i - 1 when no numeric token starts at i).
LongestTokenEnd(t, i) ==
    LET ends == {e \in i..Len(t) : IsNumericToken(SubSeq(t, i, e))}
    IN  IF ends = {} THEN i - 1 ELSE CHOOSE e \in ends : \A f \in ends : f <= e

\* starts are the first positions of the greedy, non-overlapping,
\* left-to-right numeric tokens of t: each start begins a token, taken as
\* long as it can be; the tokens do not overlap; no digit is left outside.
IsGreedyScan(t, starts) ==
    /\ \A i \in starts : LongestTokenEnd(t, i) >= i
    /\ \A i, j \in starts : i < j => LongestTokenEnd(t, i) < j
    /\ \A p \in 1..Len(t) :
          IsDigit(t[p]) => \E i \in starts : i <= p /\ p <= LongestTokenEnd(t, i)

TokensAt(t, starts) ==
    LET order == Ascending(starts)
    IN  [k \in DOMAIN order |-> SubSeq(t, order[k], LongestTokenEnd(t, order[k]))]

\* C10: extractNumbers returns exactly the greedy, non-overlapping,
\* left-to-right maximal numeric tokens of the text, in the order of their
\* first characters, and the empty sequence for a text without a digit.
C10_ExtractNumbersGreedy ==
    extracted.called =>
        /\ \E starts \in SUBSET (1..Len(text)) :
              /\ IsGreedyScan(text, starts)
              /\ extracted.result = TokensAt(text, starts)
        /\ (\A p \in 1..Len(text) : ~IsDigit(text[p])) => extracted.result = << >>

\* C10 witness: a text with a decimal token followed by a "." that belongs
\* to no token.
C10_Witness ==
    /\ extracted.called
    /\ text = <<"1", ".", "2", ".">>
    /\ extracted.result = << <<"1", ".", "2">> >>

\* The two calls the component makes on its parent, and the run bookkeeping,
\* are left alone by a step: no onExtractionComplete, no onProcessReset.
NoCallbacks ==
    /\ finalNumbers' = finalNumbers
    /\ startCalls' = startCalls
    /\ settled' = NoRun
    /\ runs' = runs

\* C11: a Save pressed in the modify view while a draft is empty after
\* trimming is rejected with the "Invalid Input" alert and changes nothing:
\* the seven state values are as before, the view is still the modify view,
\* and neither parent callback is called.
C11_RejectedSaveChangesNothing ==
    [][ ( /\ lastEvent'.name = "handleSaveChanges"
          /\ renderContent = "modify"
          /\ (Trim(numberInput1) = << >> \/ Trim(numberInput2) = << >>) )
        => ( /\ lastEvent'.alert = "Invalid Input"
             /\ UNCHANGED reviewVars
             /\ renderContent' = "modify"
             /\ NoCallbacks ) ]_vars

\* A Save was just rejected on a draft made of white space only.
C11_Witness ==
    /\ lastEvent.name = "handleSaveChanges"
    /\ lastEvent.alert = "Invalid Input"
    /\ renderContent = "modify"
    /\ (numberInput1 = <<" ">> \/ numberInput2 = <<" ">>)

\* C12: a Save pressed in the modify view while both drafts are non-empty
\* after trimming stores exactly the two trimmed drafts as the pair, clears
\* isModifyingNumbers, sets showStartButton, and the start view is rendered.
C12_SaveStoresTrimmedDrafts ==
    [][ ( /\ lastEvent'.name = "handleSaveChanges"
          /\ renderContent = "modify"
          /\ Trim(numberInput1) # << >>
          /\ Trim(numberInput2) # << >> )
        => ( /\ displayedNumbers' = <<Trim(numberInput1), Trim(numberInput2)>>
             /\ ~isModifyingNumbers'
             /\ showStartButton'
             /\ renderContent' = "start" ) ]_vars

\* A Save was just accepted on a first draft with white space around it, and
\* the stored first number is the draft without that white space.
C12_Witness ==
    /\ lastEvent.name = "handleSaveChanges"
    /\ lastEvent.alert = "none"
    /\ renderContent = "start"
    /\ numberInput1 = <<" ", "a", " ">>
    /\ displayedNumbers # NoPair
    /\ displayedNumbers[1] = <<"a">>

DraftEdits == {"setNumberInput1", "setNumberInput2"}

\* C13: Modify and Cancel are a round trip on the pair. Every Modify pressed
\* in the decision view opens the modify view with the two drafts equal to
\* the two numbers of the pair, whatever the drafts were before; every draft
\* edit keeps the pair and the modify view; every Cancel pressed in the
\* modify view goes back to the decision view with the pair as it was.
C13_ModifyCancelRoundTrip ==
    [][ /\ ( lastEvent'.name = "handleModifyNumbers" /\ renderContent = "decision"
             => /\ renderContent' = "modify"
                /\ displayedNumbers' = displayedNumbers
                /\ numberInput1' = displayedNumbers[1]
                /\ numberInput2' = displayedNumbers[2] )
        /\ ( lastEvent'.name \in DraftEdits /\ renderContent = "modify"
             => /\ renderContent' = "modify"
                /\ displayedNumbers' = displayedNumbers )
        /\ ( lastEvent'.name = "handleCancelModification" /\ renderContent = "modify"
             => /\ renderContent' = "decision"
                /\ displayedNumbers' = displayedNumbers ) ]_vars

\* Cancel was just pressed after an edit: the decision view shows the pair,
\* and the discarded first draft, which differs from it, is still stored.
C13_Witness ==
    /\ lastEvent.name = "handleCancelModification"
    /\ renderContent = "decision"
    /\ numberInput1 = <<" ">>
    /\ displayedNumbers[1] # numberInput1

\* C14: whenever a run succeeds with two tokens or more, the decision view
\* follows with the first two tokens, in order, as the pair and with
\* isModifyingNumbers and showStartButton false, so that Start is not offered
\* before Accept or Save.
C14_SuccessAwaitsDecision ==
    [][ ( lastEvent'.name = "processResolved" /\ Len(settled'.numbers) >= 2 )
        => ( /\ renderContent' = "decision"
             /\ displayedNumbers' = <<settled'.numbers[1], settled'.numbers[2]>>
             /\ ~isModifyingNumbers'
             /\ ~showStartButton' ) ]_vars

\* C15: in every reachable state isModifyingNumbers and showStartButton are
\* not both true, neither is true while displayedNumbers is null, and loading
\* is not true while displayedNumbers is non-null or either flag is true.
C15_FlagsEncodeOneVariant ==
    /\ ~(isModifyingNumbers /\ showStartButton)
    /\ (displayedNumbers = NoPair => ~isModifyingNumbers /\ ~showStartButton)
    /\ (loading => displayedNumbers = NoPair /\ ~isModifyingNumbers /\ ~showStartButton)

\* C16: whenever the pipeline of a run rejects, the component is left idle:
\* loading false, displayedNumbers null, allExtractedNumbers empty, both
\* flags false, and none of Modify, Accept, Save and Start offered.
C16_FailureReturnsToIdle ==
    [][ lastEvent'.name = "processRejected"
        => ( /\ ~loading'
             /\ displayedNumbers' = NoPair
             /\ allExtractedNumbers' = << >>
             /\ ~isModifyingNumbers'
             /\ ~showStartButton'
             /\ renderContent' \notin {"decision", "modify", "start"} ) ]_vars

\* The steps that may write displayedNumbers: the start and the two
\* completions of a run, and the reset for a new image (the unmount when a
\* pick begins, the effect when the picked image arrives).
PairWriters ==
    {"handleProcessImage", "processResolved", "processRejected",
     "handlePickImage", "handlePickImageSelected"}

\* The steps that must leave displayedNumbers alone.
PairReaders ==
    {"handleAcceptNumbers", "handleModifyNumbers", "handleCancelModification",
     "setNumberInput1", "setNumberInput2", "handleStart"}

\* C17: displayedNumbers is changed only by an accepted Save, by the start
\* or the completion of a run and by the reset for a new image; Accept,
\* Modify, Cancel, a rejected Save, the draft edits and Start leave it as it is.
C17_PairFrame ==
    [][ /\ ( displayedNumbers' # displayedNumbers
             => \/ lastEvent'.name \in PairWriters
                \/ /\ lastEvent'.name = "handleSaveChanges"
                   /\ lastEvent'.alert = "none" )
        /\ ( lastEvent'.name \in PairReaders
             => displayedNumbers' = displayedNumbers )
        /\ ( lastEvent'.name = "handleSaveChanges" /\ lastEvent'.alert = "Invalid Input"
             => displayedNumbers' = displayedNumbers ) ]_vars

\* Start was just pressed on a pair saved from edited drafts, and the pair is
\* still the one that was saved.
C17_Witness ==
    /\ lastEvent.name = "handleStart"
    /\ lastEvent.alert = "Ready to Start"
    /\ displayedNumbers = <<Trim(numberInput1), Trim(numberInput2)>>
    /\ numberInput1 \in DraftInputs

\* C18: Start passes displayedNumbers, as it stands in the start view, to
\* onExtractionComplete; so the pair it emits is the one last confirmed in
\* this image's cycle exactly when every pair standing under showStartButton
\* was put there by Accept or Save, or stood there confirmed already (a new
\* image clears showStartButton). No step other than Accept and Save makes
\* or changes a pair that Start can emit.
C18_StartEmitsConfirmedPair ==
    [][ ( showStartButton' /\ displayedNumbers' # NoPair )
        => \/ lastEvent'.name \in {"handleAcceptNumbers", "handleSaveChanges"}
           \/ /\ showStartButton
              /\ displayedNumbers' = displayedNumbers ]_vars

\* The runs in flight that the mounted component instance started.
OwnRuns == [r \in {x \in InFlight : x.status # "orphan"} |-> runs[r]]

\* C19: the mounted component has at most one run in flight, and while a run
\* it started has not settled the Process Image button is not offered,
\* whether or not the imageUri prop changed during the run.
C19_OneRunInFlight ==
    /\ BagCardinality(OwnRuns) <= 1
    /\ (BagCardinality(OwnRuns) > 0 => renderContent # "process")

\* C20: provided the crop and OCR calls are eventually answered, every state
\* with loading true is followed by a state with loading false, whether the
\* run succeeds, finds fewer than two numbers or fails.
C20_ProcessingEventuallyLeft == loading ~> ~loading

\* The loader was just left by the failure of the run that raised it.
C20_Witness ==
    /\ lastEvent.name = "processRejected"
    /\ lastEvent.view = "loader"
    /\ settled.status = "current"
    /\ ~loading

\* A non-empty string with no white space at either end.
NoEdgeSpace(s) ==
    /\ s # << >>
    /\ ~IsSpace(s[1])
    /\ ~IsSpace(s[Len(s)])

\* C21: every pair passed to onExtractionComplete is made of two non-empty
\* strings without white space at either end, and each of the two is a
\* numeric token (what extraction yields) or the draft of its field, trimmed
\* and non-empty (what Save stores).
C21_EmittedPairWellFormed ==
    ( lastEvent.name = "handleStart" /\ lastEvent.alert = "Ready to Start" )
    => /\ finalNumbers # NoPair
       /\ NoEdgeSpace(finalNumbers[1])
       /\ NoEdgeSpace(finalNumbers[2])
       /\ \/ IsNumericToken(finalNumbers[1])
          \/ finalNumbers[1] = Trim(numberInput1) /\ Trim(numberInput1) # << >>
       /\ \/ IsNumericToken(finalNumbers[2])
          \/ finalNumbers[2] = Trim(numberInput2) /\ Trim(numberInput2) # << >>

\* Start just emitted a pair whose first number was saved from a draft typed
\* with white space around it and whose second is an extracted token.
C21_Witness ==
    /\ lastEvent.name = "handleStart"
    /\ lastEvent.alert = "Ready to Start"
    /\ numberInput1 = <<" ", "a", " ">>
    /\ finalNumbers[1] = <<"a">>
    /\ IsNumericToken(finalNumbers[2])

====
